---- MODULE Spec2Model ----
(***************************************************************************)
(* Mars landing fuel management system (src/mars_landing.py).              *)
(*                                                                         *)
(* The model covers the MarsLandingFuelSystem object, its four-stage       *)
(* monitoring pipeline (calculate_burn_rate, predict_fuel_requirements,    *)
(* evaluate_safety_margins, generate_alerts), monitor_cycle and            *)
(* update_sensors, and the web driver src/app.py that serves /status       *)
(* requests on one shared object.                                          *)
(*                                                                         *)
(* Numbers: the program computes in floating point; the model computes in  *)
(* exact rational arithmetic (a rational is a record [n, d] in lowest      *)
(* terms with d > 0).  Fuel, altitude and velocity are whole numbers of    *)
(* kg, m and m/s; timestamps are whole numbers of clock ticks, with        *)
(* TicksPerSecond ticks to the second, so that a positive time difference  *)
(* below 0.001 s is representable.                                         *)
(***************************************************************************)
EXTENDS Integers, Sequences, FiniteSets, TLC

VARIABLES
    system,     \* the MarsLandingFuelSystem object (its attributes)
    status,     \* the snapshot returned by the latest monitor_cycle
    cycles,     \* number of monitor_cycle calls made on the object
    cycle_time, \* the clock value read by the latest monitor_cycle
    prior,      \* current_fuel and clock value of the cycle before the latest
    updates,    \* number of update_sensors calls made on the object
    call,       \* the latest call: its name, arguments and the object before it
    ret,        \* the value returned by the latest direct call of a pipeline stage
    state,      \* the dictionary state of src/app.py, but for state["system"]
    requests    \* the /status requests being served: position and locals

vars == <<system, status, cycles, cycle_time, prior, updates, call, ret,
          state, requests>>

----------------------------------------------------------------------------
(* Bounds of the model *)

\* monitor_cycle calls explored on one object
MaxCycles == 2
\* update_sensors calls explored on one object
MaxUpdates == 2
\* largest |burn rate| (kg/s) a modelled cycle computes; keeps the cubic
\* fuel figures inside TLC's 32-bit integers
MaxBurnRate == 6000

----------------------------------------------------------------------------
(* Exact rational arithmetic *)

Abs(x) == IF x < 0 THEN -x ELSE x

RECURSIVE GCD(_, _)
GCD(a, b) == IF b = 0 THEN a ELSE GCD(b, a % b)

\* the rational n/d (d # 0) in lowest terms, d > 0
Rat(n, d) ==
    LET g == GCD(Abs(n), Abs(d))
        s == IF d < 0 THEN -1 ELSE 1
    IN  [n |-> s * (n \div g), d |-> Abs(d) \div g]

R(i) == [n |-> i, d |-> 1]

\* float('inf'): not a rational (d = 0), greater than every rational
Inf == [n |-> 1, d |-> 0]
IsInf(x) == x.d = 0

RNeg(a) == [n |-> -a.n, d |-> a.d]

RAdd(a, b) ==
    LET g == GCD(a.d, b.d)
    IN  Rat(a.n * (b.d \div g) + b.n * (a.d \div g), (a.d \div g) * b.d)

RSub(a, b) == RAdd(a, RNeg(b))

RMul(a, b) ==
    LET g1 == GCD(Abs(a.n), b.d)
        g2 == GCD(Abs(b.n), a.d)
    IN  Rat((a.n \div g1) * (b.n \div g2), (a.d \div g2) * (b.d \div g1))

\* a / b, b # 0
RDiv(a, b) == RMul(a, Rat(b.d, b.n))

RAbs(a) == [n |-> Abs(a.n), d |-> a.d]

\* a < b and a <= b on floats that may be infinite
RLt(a, b) ==
    IF IsInf(a) THEN FALSE
    ELSE IF IsInf(b) THEN TRUE
    ELSE RSub(a, b).n < 0

RLe(a, b) == a = b \/ RLt(a, b)

RMax(a, b) == IF RLt(a, b) THEN b ELSE a

Max(a, b) == IF a < b THEN b ELSE a

----------------------------------------------------------------------------
(* Constants of the program *)

\* clock resolution of the model: ticks in one second
TicksPerSecond == 2 * 1000

SAFE_RESERVE == 100
\* 0.15
BURN_RATE_TOLERANCE == Rat(15, 100)
ALERT_THRESHOLD == 30
\* the 0.001 s the estimator substitutes for a non-positive time delta
MinTimeDelta == Rat(1, 1000)
\* nominal burn rate of a phase without a table entry
DefaultBurnRate == 6

PHASE_BURN_RATES ==
    [p \in {"powered_descent", "constant_deceleration", "final_approach", "landing"} |->
        CASE p = "powered_descent" -> 8
          [] p = "constant_deceleration" -> 6
          [] p = "final_approach" -> 4
          [] p = "landing" -> 12]

MissionPhase(name, rate, duration, loss) ==
    [name |-> name, nominal_burn_rate |-> rate, duration |-> duration,
     gravity_loss_factor |-> loss]

REMAINING_MANEUVERS ==
    [p \in {"powered_descent", "constant_deceleration", "final_approach", "landing"} |->
        CASE p = "powered_descent" ->
                <<MissionPhase("constant_deceleration", 6, 40, Rat(8, 100)),
                  MissionPhase("final_approach", 4, 20, Rat(5, 100)),
                  MissionPhase("landing", 12, 10, Rat(3, 100))>>
          [] p = "constant_deceleration" ->
                <<MissionPhase("final_approach", 4, 20, Rat(5, 100)),
                  MissionPhase("landing", 12, 10, Rat(3, 100))>>
          [] p = "final_approach" ->
                <<MissionPhase("landing", 12, 10, Rat(3, 100))>>
          [] p = "landing" -> <<>>]

\* Get with the table's first entry for a missing key, the default ignored
GetFirstEntry(dict, key, default) ==
    IF key \in DOMAIN dict THEN dict[key] ELSE dict["powered_descent"]

\* dict.get(key, default)
Get(dict, key, default) == IF key \in DOMAIN dict THEN dict[key] ELSE default

----------------------------------------------------------------------------
(* SUBPROBLEM 1: calculate_burn_rate *)

\* TimeDelta with the substitute mistyped as 0.01 s
TimeDeltaWrongFloor(current_time, previous_timestamp) ==
    LET time_delta == current_time - previous_timestamp
    IN  IF time_delta <= 0 THEN Rat(1, 100) ELSE Rat(time_delta, TicksPerSecond)

\* TimeDelta as max(current - previous, 0.001)
TimeDeltaMax(current_time, previous_timestamp) ==
    RMax(Rat(current_time - previous_timestamp, TicksPerSecond), MinTimeDelta)

\* the time delta, in seconds, the estimator divides by
TimeDelta(current_time, previous_timestamp) ==
    LET time_delta == current_time - previous_timestamp
    IN  IF time_delta <= 0 THEN MinTimeDelta ELSE Rat(time_delta, TicksPerSecond)

\* the relative deviation of a burn rate from the nominal rate
Deviation(actual_burn_rate, nominal_burn_rate) ==
    IF nominal_burn_rate > 0
    THEN RDiv(RSub(actual_burn_rate, R(nominal_burn_rate)), R(nominal_burn_rate))
    ELSE R(0)

\* AnomalyDetected with the tolerance itself counted as anomalous
AnomalyDetectedInclusive(deviation) == RLe(BURN_RATE_TOLERANCE, RAbs(deviation))

AnomalyDetected(deviation) == RLt(BURN_RATE_TOLERANCE, RAbs(deviation))

\* StoreReading without the line that stores the timestamp
StoreReadingFuelOnly(self, current_fuel, current_time) ==
    [self EXCEPT !.previous_fuel_mass = current_fuel]

\* StoreReading without the line that stores the fuel reading
StoreReadingTimeOnly(self, current_fuel, current_time) ==
    [self EXCEPT !.previous_timestamp = current_time]

\* the object after the estimator stored the current reading
StoreReading(self, current_fuel, current_time) ==
    [self EXCEPT !.previous_fuel_mass = current_fuel,
                 !.previous_timestamp = current_time]

\* returns the ConsumptionData (data), the object afterwards (self) and the
\* time delta used (time_delta, a local of the method)
calculate_burn_rate(self, current_fuel, current_time) ==
    LET time_delta == TimeDelta(current_time, self.previous_timestamp)
        fuel_consumed == self.previous_fuel_mass - current_fuel
        actual_burn_rate == RDiv(R(fuel_consumed), time_delta)
        nominal_burn_rate == Get(PHASE_BURN_RATES, self.mission_phase, DefaultBurnRate)
        deviation == Deviation(actual_burn_rate, nominal_burn_rate)
    IN  [data |-> [actual_burn_rate |-> actual_burn_rate,
                   deviation_percent |-> RMul(deviation, R(100)),
                   anomaly_flag |-> AnomalyDetected(deviation),
                   current_fuel |-> current_fuel],
         self |-> StoreReading(self, current_fuel, current_time),
         time_delta |-> time_delta]

----------------------------------------------------------------------------
(* SUBPROBLEM 2: predict_fuel_requirements *)

\* fuel for one remaining maneuver, gravity losses included
AdjustedFuel(maneuver, burn_rate) ==
    LET burn_adjustment ==
            IF maneuver.nominal_burn_rate > 0
            THEN RDiv(burn_rate, R(maneuver.nominal_burn_rate))
            ELSE R(1)
        phase_fuel == RMul(RMul(R(maneuver.duration), burn_rate), burn_adjustment)
    IN  RMul(phase_fuel, RAdd(R(1), maneuver.gravity_loss_factor))

\* the loop over the remaining maneuvers: total and breakdown after the
\* first k of them
RECURSIVE FuelLoop(_, _, _)
FuelLoop(maneuvers, burn_rate, k) ==
    IF k = 0 THEN [total |-> R(0), breakdown |-> <<>>]
    ELSE LET before == FuelLoop(maneuvers, burn_rate, k - 1)
             maneuver == maneuvers[k]
             adjusted_fuel == AdjustedFuel(maneuver, burn_rate)
         IN  [total |-> RAdd(before.total, adjusted_fuel),
              breakdown |-> Append(before.breakdown,
                                   [phase |-> maneuver.name,
                                    fuel_required |-> adjusted_fuel,
                                    duration |-> maneuver.duration])]

\* UncertaintyMargin with the two buffers exchanged
UncertaintyMarginSwapped(total_required_fuel, anomaly_detected) ==
    IF anomaly_detected
    THEN RMul(total_required_fuel, Rat(5, 100))
    ELSE RMul(total_required_fuel, Rat(20, 100))

UncertaintyMargin(total_required_fuel, anomaly_detected) ==
    IF anomaly_detected
    THEN RMul(total_required_fuel, Rat(20, 100))
    ELSE RMul(total_required_fuel, Rat(5, 100))

ConfidenceLevel(total_required_fuel, uncertainty_margin) ==
    IF RLt(R(0), total_required_fuel)
    THEN RMul(RSub(R(1), RDiv(uncertainty_margin, total_required_fuel)), R(100))
    ELSE R(100)

\* RemainingManeuvers with the whole descent as the default
RemainingManeuversDefaultAll(mission_phase) ==
    Get(REMAINING_MANEUVERS, mission_phase, REMAINING_MANEUVERS["powered_descent"])

RemainingManeuvers(mission_phase) == Get(REMAINING_MANEUVERS, mission_phase, <<>>)

predict_fuel_requirements(self, burn_rate, anomaly_detected) ==
    LET remaining_maneuvers == RemainingManeuvers(self.mission_phase)
        loop == FuelLoop(remaining_maneuvers, burn_rate, Len(remaining_maneuvers))
        total_required_fuel == loop.total
        uncertainty_margin == UncertaintyMargin(total_required_fuel, anomaly_detected)
    IN  [required_fuel |-> total_required_fuel,
         with_margin |-> RAdd(total_required_fuel, uncertainty_margin),
         breakdown |-> loop.breakdown,
         confidence |-> ConfidenceLevel(total_required_fuel, uncertainty_margin)]

----------------------------------------------------------------------------
(* SUBPROBLEM 3: evaluate_safety_margins *)

_calculate_abort_to_orbit_fuel(self) ==
    LET altitude_factor == RMax(R(0), Rat(self.altitude, 5000))
        velocity_factor == Rat(self.velocity, 100)
        base_abort_fuel == R(200)
        altitude_penalty == RMul(R(50), RSub(R(1), altitude_factor))
        velocity_penalty == RMul(R(30), velocity_factor)
    IN  RAdd(RAdd(base_abort_fuel, altitude_penalty), velocity_penalty)

AbortCapable(current_fuel, abort_maneuver_fuel) ==
    RLe(RAdd(abort_maneuver_fuel, R(50)), current_fuel)

\* MissionStatus with "and" for the "or" of the CAUTION test
MissionStatusAnd(fuel_margin, abort_capable) ==
    IF RLe(R(0), fuel_margin) /\ abort_capable THEN "NOMINAL"
    ELSE IF RLe(R(-50), fuel_margin) /\ abort_capable THEN "CAUTION"
    ELSE "CRITICAL"

MissionStatus(fuel_margin, abort_capable) ==
    IF RLe(R(0), fuel_margin) /\ abort_capable THEN "NOMINAL"
    ELSE IF RLe(R(-50), fuel_margin) \/ abort_capable THEN "CAUTION"
    ELSE "CRITICAL"

\* TimeToDepletion with 0 for "no depletion"
TimeToDepletionZero(current_fuel, burn_rate) ==
    IF RLt(R(0), burn_rate) THEN RDiv(current_fuel, burn_rate) ELSE R(0)

TimeToDepletion(current_fuel, burn_rate) ==
    IF RLt(R(0), burn_rate) THEN RDiv(current_fuel, burn_rate) ELSE Inf

\* current_fuel, required_fuel and burn_rate are rationals
evaluate_safety_margins(self, current_fuel, required_fuel, burn_rate) ==
    LET fuel_margin == RSub(RSub(current_fuel, required_fuel), R(SAFE_RESERVE))
        abort_maneuver_fuel == _calculate_abort_to_orbit_fuel(self)
        abort_capable == AbortCapable(current_fuel, abort_maneuver_fuel)
    IN  [status |-> MissionStatus(fuel_margin, abort_capable),
         fuel_margin |-> fuel_margin,
         abort_capable |-> abort_capable,
         time_remaining |-> TimeToDepletion(current_fuel, burn_rate),
         fuel_sufficient |-> RLe(R(0), fuel_margin)]

----------------------------------------------------------------------------
(* SUBPROBLEM 4: generate_alerts *)

\* format(x, ".1f") and format(x, "+.1f") of a finite x: sign, whole part and
\* one decimal digit, rounded to nearest, ties to even
Fmt1(x, plus) ==
    LET a == RAbs(x)
        whole == a.n \div a.d
        rest == (a.n % a.d) * 10
        digit == rest \div a.d
        left == 2 * (rest % a.d)
        up == left > a.d \/ (left = a.d /\ digit % 2 = 1)
        tenths == IF up THEN digit + 1 ELSE digit
    IN  [sign |-> IF x.n < 0 THEN "-" ELSE IF plus THEN "+" ELSE "",
         whole |-> IF tenths = 10 THEN whole + 1 ELSE whole,
         tenth |-> IF tenths = 10 THEN 0 ELSE tenths]

\* a message without a number in it
NoNumber == [sign |-> "", whole |-> 0, tenth |-> 0]
Msg(text) == [text |-> text, number |-> NoNumber]
MsgWith(text, number) == [text |-> text, number |-> number]

W_CRITICAL == "CRITICAL: Insufficient fuel for nominal landing"
W_DEFICIT == "DEFICIT: {:.1f} kg shortfall"
W_ABORT == "WARNING: Abort-to-orbit window closing"
W_ALERT == "ALERT: Burn rate {:+.1f}% from nominal"
W_TIME == "TIME CRITICAL: {:.1f}s to depletion"
R_ABORT == "IMMEDIATE: Consider abort to orbit"
R_OPTIMIZE == "EMERGENCY: Optimize trajectory NOW"
R_EMERGENCY == "Consider emergency landing procedures"
R_INVESTIGATE == "Investigate thruster performance"
R_CONTINUE == "Continue nominal descent profile"

\* ShortageWarnings with the two warnings in the other order
ShortageWarningsDeficitFirst(safety_eval) ==
    IF ~safety_eval.fuel_sufficient
    THEN <<[text |-> "DEFICIT: {:.1f} kg shortfall",
            number |-> Fmt1(RAbs(safety_eval.fuel_margin), FALSE)],
           [text |-> "CRITICAL: Insufficient fuel for nominal landing",
            number |-> [sign |-> "", whole |-> 0, tenth |-> 0]]>>
    ELSE <<>>

\* rule 1: critical fuel shortage
ShortageWarnings(safety_eval) ==
    IF ~safety_eval.fuel_sufficient
    THEN <<Msg(W_CRITICAL),
           MsgWith(W_DEFICIT, Fmt1(RAbs(safety_eval.fuel_margin), FALSE))>>
    ELSE <<>>

ShortageRecommendations(safety_eval) ==
    IF ~safety_eval.fuel_sufficient
    THEN IF safety_eval.abort_capable
         THEN <<Msg(R_ABORT)>>
         ELSE <<Msg(R_OPTIMIZE), Msg(R_EMERGENCY)>>
    ELSE <<>>

\* AbortWarnings without the exception for CRITICAL
AbortWarningsAlways(safety_eval) ==
    IF ~safety_eval.abort_capable
    THEN <<[text |-> "WARNING: Abort-to-orbit window closing",
            number |-> [sign |-> "", whole |-> 0, tenth |-> 0]]>>
    ELSE <<>>

\* rule 2: abort capability lost
AbortWarnings(safety_eval) ==
    IF ~safety_eval.abort_capable /\ safety_eval.status # "CRITICAL"
    THEN <<Msg(W_ABORT)>>
    ELSE <<>>

\* rule 3: anomalous consumption
AnomalyWarnings(consumption_data) ==
    IF consumption_data.anomaly_flag
    THEN <<MsgWith(W_ALERT, Fmt1(consumption_data.deviation_percent, TRUE))>>
    ELSE <<>>

AnomalyRecommendations(consumption_data) ==
    IF consumption_data.anomaly_flag THEN <<Msg(R_INVESTIGATE)>> ELSE <<>>

\* TimeWarnings with the comparison turned round
TimeWarningsAboveThreshold(safety_eval) ==
    IF RLt(R(ALERT_THRESHOLD), safety_eval.time_remaining)
    THEN <<[text |-> "TIME CRITICAL: {:.1f}s to depletion",
            number |-> [sign |-> "", whole |-> 0, tenth |-> 0]]>>
    ELSE <<>>

\* rule 4: time-critical alert
TimeWarnings(safety_eval) ==
    IF RLt(safety_eval.time_remaining, R(ALERT_THRESHOLD))
    THEN <<MsgWith(W_TIME, Fmt1(safety_eval.time_remaining, FALSE))>>
    ELSE <<>>

\* NominalRecommendations without the test for warnings
NominalRecommendationsDespiteWarnings(safety_eval, warnings) ==
    IF safety_eval.status = "NOMINAL"
    THEN <<[text |-> "Continue nominal descent profile",
            number |-> [sign |-> "", whole |-> 0, tenth |-> 0]]>>
    ELSE <<>>

\* rule 5: positive status with margin
NominalRecommendations(safety_eval, warnings) ==
    IF safety_eval.status = "NOMINAL" /\ Len(warnings) = 0
    THEN <<Msg(R_CONTINUE)>>
    ELSE <<>>

generate_alerts(safety_eval, consumption_data, prediction) ==
    LET warnings == ShortageWarnings(safety_eval) \o AbortWarnings(safety_eval)
                    \o AnomalyWarnings(consumption_data) \o TimeWarnings(safety_eval)
        recommendations == ShortageRecommendations(safety_eval)
                           \o AnomalyRecommendations(consumption_data)
                           \o NominalRecommendations(safety_eval, warnings)
    IN  [warnings |-> warnings,
         recommendations |-> recommendations,
         priority |-> safety_eval.status]

----------------------------------------------------------------------------
(* MAIN MONITORING CYCLE *)

\* the snapshot compiled at the end of a cycle (its wall-clock text, a second
\* reading of the clock, is left out)
CompileStatus(self, consumption_data, fuel_prediction, safety_status, alerts) ==
    [mission_phase |-> self.mission_phase,
     status |-> safety_status.status,
     current_fuel |-> consumption_data.current_fuel,
     burn_rate |-> consumption_data.actual_burn_rate,
     burn_rate_deviation |-> consumption_data.deviation_percent,
     anomaly_detected |-> consumption_data.anomaly_flag,
     required_fuel |-> fuel_prediction.required_fuel,
     fuel_margin |-> safety_status.fuel_margin,
     fuel_at_touchdown |-> RSub(R(consumption_data.current_fuel),
                                fuel_prediction.required_fuel),
     time_remaining |-> safety_status.time_remaining,
     abort_capable |-> safety_status.abort_capable,
     confidence |-> fuel_prediction.confidence,
     warnings |-> alerts.warnings,
     recommendations |-> alerts.recommendations,
     altitude |-> self.altitude,
     velocity |-> self.velocity]

\* Step 4: generate alerts
CycleAlerts(self, consumption_data, fuel_prediction, safety_status) ==
    CompileStatus(self, consumption_data, fuel_prediction, safety_status,
                  generate_alerts(safety_status, consumption_data, fuel_prediction))

\* Step 3: evaluate safety
CycleSafety(self, consumption_data, fuel_prediction) ==
    CycleAlerts(self, consumption_data, fuel_prediction,
                evaluate_safety_margins(self, R(consumption_data.current_fuel),
                                        fuel_prediction.with_margin,
                                        consumption_data.actual_burn_rate))

\* Step 2: predict requirements
CyclePrediction(self, consumption_data) ==
    CycleSafety(self, consumption_data,
                predict_fuel_requirements(self, consumption_data.actual_burn_rate,
                                          consumption_data.anomaly_flag))

\* the snapshot a cycle returns (status), the object it leaves (self) and the
\* time delta its estimator used, for the clock value current_time it read
MonitorCycle(self, current_time) ==
    LET burn == calculate_burn_rate(self, self.current_fuel_mass, current_time)
    IN  [self |-> burn.self,
         time_delta |-> burn.time_delta,
         status |-> CyclePrediction(burn.self, burn.data)]

----------------------------------------------------------------------------
(* SIMULATION METHODS *)

\* Clamped without the floor
Unclamped(value, delta) == value + delta

\* UpdateSensors that also moves the stored fuel reading
UpdateSensorsResync(self, fuel_delta, altitude_delta, velocity_delta) ==
    [self EXCEPT !.current_fuel_mass = Max(0, self.current_fuel_mass + fuel_delta),
                 !.previous_fuel_mass = Max(0, self.current_fuel_mass + fuel_delta),
                 !.altitude = Max(0, self.altitude + altitude_delta),
                 !.velocity = Max(0, self.velocity + velocity_delta)]

\* max(0, value + delta)
Clamped(value, delta) == Max(0, value + delta)

UpdateSensors(self, fuel_delta, altitude_delta, velocity_delta) ==
    [self EXCEPT !.current_fuel_mass = Clamped(self.current_fuel_mass, fuel_delta),
                 !.altitude = Clamped(self.altitude, altitude_delta),
                 !.velocity = Clamped(self.velocity, velocity_delta)]

\* MarsLandingFuelSystem(initial_fuel, mission_phase), built when the clock
\* reads now
NewSystem(initial_fuel, mission_phase, now) ==
    [previous_fuel_mass |-> initial_fuel,
     previous_timestamp |-> now,
     mission_phase |-> mission_phase,
     current_fuel_mass |-> initial_fuel,
     altitude |-> 5000,
     velocity |-> 80]

----------------------------------------------------------------------------
(* The drivers: src/app.py and the run_example_* functions *)

SCENARIOS ==
    [key \in {"nominal", "anomalous", "critical", "emergency"} |->
        CASE key = "nominal" ->
                [initialFuel |-> 853, phase |-> "constant_deceleration",
                 altitude |-> 2000, velocity |-> 45, fuelDelta |-> -3]
          [] key = "anomalous" ->
                [initialFuel |-> 627, phase |-> "constant_deceleration",
                 altitude |-> 1200, velocity |-> 38, fuelDelta |-> -7]
          [] key = "critical" ->
                [initialFuel |-> 178, phase |-> "final_approach",
                 altitude |-> 450, velocity |-> 12, fuelDelta |-> -3]
          [] key = "emergency" ->
                [initialFuel |-> 118, phase |-> "landing",
                 altitude |-> 95, velocity |-> 3, fuelDelta |-> -6]]

\* init_system(key), when the clock reads now
init_system(key, now) ==
    LET s == SCENARIOS[key]
    IN  [NewSystem(s.initialFuel, s.phase, now) EXCEPT
            !.altitude = s.altitude, !.velocity = s.velocity]

\* the clock value, in ticks, at which the modelled objects are built
StartTime == TicksPerSecond \div 2

\* objects built directly, with the constructor's altitude and velocity:
\* <<initial_fuel, mission_phase>>
DirectConstructions ==
    {<<300, "powered_descent">>, <<400, "parking_orbit">>, <<5, "final_approach">>,
     <<90, "final_approach">>}

\* the objects the model starts from
InitialSystems ==
    {init_system(key, StartTime) : key \in DOMAIN SCENARIOS}
    \cup {NewSystem(c[1], c[2], StartTime) : c \in DirectConstructions}

\* update_sensors arguments: the drivers' (fuelDelta with 0, 0 in the examples
\* and with -50, -2 in app.py) and others of either sign
SensorDeltas ==
    {<<SCENARIOS[key].fuelDelta, 0, 0>> : key \in DOMAIN SCENARIOS}
    \cup {<<SCENARIOS[key].fuelDelta, -50, -2>> : key \in {"emergency"}}
    \cup {<<3, 50, 2>>, <<-120, -100, -4>>}

\* what time.time() can return relative to the reading the object stored, in
\* ticks: the usual half second, no progress, less than 0.001 s, exactly
\* 0.001 s, and a wall clock that was set back
ClockSteps == {TicksPerSecond \div 2, 0, 1, 2, -(TicksPerSecond \div 2)}

NoStatus == <<>>

\* the dictionary state as the module builds it
InitialState == [scenario |-> "nominal", is_running |-> FALSE, tick |-> 0]

\* the threads that serve requests
Threads == {1, 2}

\* a thread that serves no request
Idle == [pc |-> "idle"]

Init ==
    /\ system \in InitialSystems
    /\ status = NoStatus
    /\ cycles = 0
    /\ cycle_time = 0
    /\ prior = [current_fuel |-> 0, current_time |-> 0]
    /\ updates = 0
    /\ call = [op |-> "__init__"]
    /\ ret = NoStatus
    /\ state = InitialState
    /\ requests = [t \in Threads |-> Idle]

update_sensors(fuel_delta, altitude_delta, velocity_delta) ==
    /\ updates < MaxUpdates
    /\ system' = UpdateSensors(system, fuel_delta, altitude_delta, velocity_delta)
    /\ updates' = updates + 1
    /\ call' = [op |-> "update_sensors", fuel_delta |-> fuel_delta,
                altitude_delta |-> altitude_delta,
                velocity_delta |-> velocity_delta, self |-> system]
    /\ UNCHANGED <<status, cycles, cycle_time, prior, ret, state, requests>>

monitor_cycle(current_time) ==
    LET cycle == MonitorCycle(system, current_time)
    IN  /\ cycles < MaxCycles
        /\ current_time >= 0
        /\ RLe(RAbs(RDiv(R(system.previous_fuel_mass - system.current_fuel_mass),
                         TimeDelta(current_time, system.previous_timestamp))),
               R(MaxBurnRate))
        /\ system' = cycle.self
        /\ status' = cycle.status
        /\ cycles' = cycles + 1
        /\ cycle_time' = current_time
        /\ prior' = IF cycles = 0 THEN prior
                    ELSE [current_fuel |-> status.current_fuel,
                          current_time |-> cycle_time]
        /\ call' = [op |-> "monitor_cycle", current_time |-> current_time,
                    time_delta |-> cycle.time_delta, self |-> system]
        /\ UNCHANGED <<updates, ret, state, requests>>

Next ==
    \/ \E d \in SensorDeltas : update_sensors(d[1], d[2], d[3])
    \/ \E step \in ClockSteps : monitor_cycle(system.previous_timestamp + step)

Spec == Init /\ [][Next]_vars

----------------------------------------------------------------------------
(* The pipeline stages called one at a time, on arguments of the caller's   *)
(* choosing                                                                 *)

\* fuel readings (kg) and clock values (ticks) handed to calculate_burn_rate:
\* differences of 0, 1 and 2 ticks and of about 5 s, of either sign
UnitFuels == {0, 77, 83, 100}
UnitTimes == {StartTime, StartTime + 1, StartTime + 2, StartTime + 5 * TicksPerSecond}

\* burn rates (kg/s) handed to the predictor
UnitBurnRates == {R(-6), R(0), Rat(1, 2), R(4), Rat(23, 5), R(6), R(12), R(3000)}

\* current fuel, required fuel (kg) and burn rates handed to the evaluator
UnitCurrentFuels == {0, 112, 250, 274}
UnitRequiredFuels == {R(0), R(150), R(200), Rat(4001, 20), R(500)}
UnitDepletionRates == {R(-6), R(0), R(12)}

UnitPhases == DOMAIN PHASE_BURN_RATES \cup {"parking_orbit"}

\* the objects the stages are called on: one per phase as the constructor
\* leaves it, and one hovering at the constructor's altitude
UnitSystems ==
    {NewSystem(100, p, StartTime) : p \in UnitPhases}
    \cup {[NewSystem(100, "landing", StartTime) EXCEPT !.velocity = 0]}

UnitInit ==
    /\ system \in UnitSystems
    /\ status = NoStatus
    /\ cycles = 0
    /\ cycle_time = 0
    /\ prior = [current_fuel |-> 0, current_time |-> 0]
    /\ updates = 0
    /\ call = [op |-> "__init__"]
    /\ ret = NoStatus
    /\ state = InitialState
    /\ requests = [t \in Threads |-> Idle]

call_calculate_burn_rate(current_fuel, current_time) ==
    LET burn == calculate_burn_rate(system, current_fuel, current_time)
    IN  /\ system' = burn.self
        /\ ret' = burn.data
        /\ call' = [op |-> "calculate_burn_rate", current_fuel |-> current_fuel,
                    current_time |-> current_time, time_delta |-> burn.time_delta,
                    self |-> system]
        /\ UNCHANGED <<status, cycles, cycle_time, prior, updates, state, requests>>

call_predict_fuel_requirements(burn_rate, anomaly_detected) ==
    /\ ret' = predict_fuel_requirements(system, burn_rate, anomaly_detected)
    /\ call' = [op |-> "predict_fuel_requirements", burn_rate |-> burn_rate,
                anomaly_detected |-> anomaly_detected, self |-> system]
    /\ UNCHANGED <<system, status, cycles, cycle_time, prior, updates, state,
                 requests>>

call_evaluate_safety_margins(current_fuel, required_fuel, burn_rate) ==
    /\ ret' = evaluate_safety_margins(system, R(current_fuel), required_fuel, burn_rate)
    /\ call' = [op |-> "evaluate_safety_margins", current_fuel |-> current_fuel,
                required_fuel |-> required_fuel, burn_rate |-> burn_rate,
                self |-> system]
    /\ UNCHANGED <<system, status, cycles, cycle_time, prior, updates, state,
                 requests>>

UnitNext ==
    \/ \E f \in UnitFuels, t \in UnitTimes : call_calculate_burn_rate(f, t)
    \/ \E r \in UnitBurnRates, a \in BOOLEAN : call_predict_fuel_requirements(r, a)
    \/ \E f \in UnitCurrentFuels, q \in UnitRequiredFuels, r \in UnitDepletionRates :
          call_evaluate_safety_margins(f, q, r)

UnitSpec == UnitInit /\ [][UnitNext]_vars

----------------------------------------------------------------------------
(* generate_alerts called on evaluations and consumption data of the        *)
(* caller's choosing                                                        *)

\* SafetyEvaluation values: every status with margins below -50, between -50
\* and 0, and above 0, times to depletion below, at and above the threshold,
\* and either value of the two booleans
AlertEvaluations ==
    [status : {"NOMINAL", "CAUTION", "CRITICAL"},
     fuel_margin : {R(-60), Rat(-501, 25), R(12)},
     abort_capable : BOOLEAN,
     time_remaining : {Rat(28, 3), R(30), Inf},
     fuel_sufficient : BOOLEAN]

\* ConsumptionData values: flagged or not
AlertConsumptions ==
    [actual_burn_rate : {R(7)},
     deviation_percent : {Rat(50, 3)},
     anomaly_flag : BOOLEAN,
     current_fuel : {112}]

\* the FuelPrediction handed over (generate_alerts does not read it)
AlertPrediction ==
    [required_fuel |-> R(0), with_margin |-> R(0), breakdown |-> <<>>,
     confidence |-> R(100)]

AlertInit ==
    /\ system = init_system("emergency", StartTime)
    /\ status = NoStatus
    /\ cycles = 0
    /\ cycle_time = 0
    /\ prior = [current_fuel |-> 0, current_time |-> 0]
    /\ updates = 0
    /\ call = [op |-> "__init__"]
    /\ ret = NoStatus
    /\ state = InitialState
    /\ requests = [t \in Threads |-> Idle]

call_generate_alerts(safety_eval, consumption_data, prediction) ==
    /\ ret' = generate_alerts(safety_eval, consumption_data, prediction)
    /\ call' = [op |-> "generate_alerts", safety_eval |-> safety_eval,
                consumption_data |-> consumption_data, prediction |-> prediction,
                self |-> system]
    /\ UNCHANGED <<system, status, cycles, cycle_time, prior, updates, state,
                 requests>>

AlertNext ==
    \E e \in AlertEvaluations, c \in AlertConsumptions :
        call_generate_alerts(e, c, AlertPrediction)

AlertSpec == AlertInit /\ [][AlertNext]_vars

----------------------------------------------------------------------------
(* The web driver, src/app.py: /status requests served by the threads of    *)
(* the server on the one object state["system"].  app.py takes no lock, so  *)
(* the steps of two requests interleave.  A request is modelled in four     *)
(* steps; each of them is a run of statements of one thread that the other  *)
(* thread does not interrupt.  /reset and /scenario are not modelled.       *)

MaxRequests == 3

\* state["system"] before the first request
None == [none |-> TRUE]

\* the clock values time.time() returns to the requests
AppTimes == {StartTime, StartTime + TicksPerSecond \div 2, StartTime + TicksPerSecond}

AppInit ==
    /\ system = None
    /\ status = NoStatus
    /\ cycles = 0
    /\ cycle_time = 0
    /\ prior = [current_fuel |-> 0, current_time |-> 0]
    /\ updates = 0
    /\ call = [op |-> "__init__"]
    /\ ret = NoStatus
    /\ state = InitialState
    /\ requests = [t \in Threads |-> Idle]

\* the requests accepted so far
Accepted == state.tick + Cardinality({t \in Threads : requests[t].pc # "idle"})

\* POST /start
start ==
    /\ ~state.is_running
    /\ state' = [state EXCEPT !.is_running = TRUE]
    /\ UNCHANGED <<system, status, cycles, cycle_time, prior, updates, call, ret,
                   requests>>

\* POST /pause
pause ==
    /\ state.is_running
    /\ state' = [state EXCEPT !.is_running = FALSE]
    /\ UNCHANGED <<system, status, cycles, cycle_time, prior, updates, call, ret,
                   requests>>

\* GET /status, lines 244 to 247: the object is built if there is none
status_enter(t) ==
    /\ requests[t].pc = "idle"
    /\ Accepted < MaxRequests
    /\ IF system = None
       THEN /\ system' = init_system(state.scenario, StartTime)
            /\ state' = [state EXCEPT !.tick = 0]
       ELSE UNCHANGED <<system, state>>
    /\ requests' = [requests EXCEPT ![t] = [pc |-> "sensors"]]
    /\ UNCHANGED <<status, cycles, cycle_time, prior, updates, call, ret>>

\* GET /status, lines 248 and 249: the simulation step, when running
status_sensors(t) ==
    /\ requests[t].pc = "sensors"
    /\ system' = IF state.is_running
                 THEN UpdateSensors(system, SCENARIOS[state.scenario].fuelDelta,
                                    -50, -2)
                 ELSE system
    /\ requests' = [requests EXCEPT ![t] = [pc |-> "cycle"]]
    /\ UNCHANGED <<status, cycles, cycle_time, prior, updates, call, ret, state>>

\* GET /status, line 250, first part: monitor_cycle reads the clock and the
\* fuel, and calculate_burn_rate reads the stored reading (lines 138 to 156
\* of src/mars_landing.py)
status_read(t, current_time) ==
    /\ requests[t].pc = "cycle"
    /\ current_time >= cycle_time
    /\ cycle_time' = current_time
    /\ requests' = [requests EXCEPT ![t] =
                        [pc |-> "store", self |-> system,
                         current_fuel |-> system.current_fuel_mass,
                         current_time |-> current_time]]
    /\ UNCHANGED <<system, status, cycles, prior, updates, call, ret, state>>

\* GET /status, line 250, second part, and line 251: calculate_burn_rate
\* stores the reading it was called with (lines 159 and 160), the cycle runs
\* to its end on the object as it is now, and the tick is counted
status_store(t) ==
    LET local == requests[t]
        burn == calculate_burn_rate(local.self, local.current_fuel,
                                    local.current_time)
        stored == StoreReading(system, local.current_fuel, local.current_time)
    IN  /\ local.pc = "store"
        /\ system' = stored
        /\ status' = CyclePrediction(stored, burn.data)
        /\ cycles' = cycles + 1
        /\ state' = [state EXCEPT !.tick = state.tick + 1]
        /\ requests' = [requests EXCEPT ![t] = Idle]
        /\ UNCHANGED <<cycle_time, prior, updates, call, ret>>

AppNext ==
    \/ start
    \/ pause
    \/ \E t \in Threads : status_enter(t)
    \/ \E t \in Threads : status_sensors(t)
    \/ \E t \in Threads, now \in AppTimes : status_read(t, now)
    \/ \E t \in Threads : status_store(t)

AppSpec == AppInit /\ [][AppNext]_vars

----------------------------------------------------------------------------
(* Properties *)

LastIs(op) == call.op = op

\* C1: evaluate_safety_margins returns exactly one of NOMINAL, CAUTION,
\* CRITICAL: NOMINAL iff fuel_margin >= 0 and abort_capable, CRITICAL iff
\* fuel_margin < -50 and not abort_capable, CAUTION in every other case; and
\* fuel_sufficient is (fuel_margin >= 0) whatever abort_capable is.
C1_StatusClassification ==
    LastIs("evaluate_safety_margins") =>
        LET m == ret.fuel_margin
            nominal == m.n >= 0 /\ ret.abort_capable
            critical == m.n < -50 * m.d /\ ~ret.abort_capable
        IN  /\ ret.status \in {"NOMINAL", "CAUTION", "CRITICAL"}
            /\ (ret.status = "NOMINAL") <=> nominal
            /\ (ret.status = "CRITICAL") <=> critical
            /\ (ret.status = "CAUTION") <=> (~nominal /\ ~critical)
            /\ ret.fuel_sufficient <=> (m.n >= 0)

\* a CAUTION with enough fuel to land but not to abort
C1_Witness ==
    /\ LastIs("evaluate_safety_margins")
    /\ ret.fuel_margin.n >= 0
    /\ ~ret.abort_capable
    /\ ret.status = "CAUTION"

\* C2: predict_fuel_requirements returns with_margin >= required_fuel, and
\* with_margin - required_fuel is 0.20 * required_fuel when the anomaly flag
\* is set and 0.05 * required_fuel otherwise, for every phase and burn rate.
C2_MarginFraction ==
    LastIs("predict_fuel_requirements") =>
        /\ RLe(ret.required_fuel, ret.with_margin)
        /\ RSub(ret.with_margin, ret.required_fuel)
             = RMul(IF call.anomaly_detected THEN Rat(1, 5) ELSE Rat(1, 20),
                    ret.required_fuel)

\* a negative burn rate with the anomaly flag set and fuel required
C2_Witness ==
    /\ LastIs("predict_fuel_requirements")
    /\ call.burn_rate.n < 0
    /\ call.anomaly_detected
    /\ ret.required_fuel.n > 0
    /\ RLt(ret.required_fuel, ret.with_margin)

\* |actual - nominal| / nominal compared with 0.15 = 3/20, in integers
NominalOf(self) == IF self.mission_phase \in DOMAIN PHASE_BURN_RATES
                   THEN PHASE_BURN_RATES[self.mission_phase] ELSE 6
DeviationTimes20(rate, nominal) == 20 * Abs(rate.n - nominal * rate.d)
ToleranceTimes20(rate, nominal) == 3 * nominal * rate.d

\* C3: calculate_burn_rate sets anomaly_flag iff |deviation| > 0.15 strictly,
\* deviation = (actual_rate - nominal_rate) / nominal_rate for the phase; a
\* deviation of exactly 0.15 or -0.15 gives anomaly_flag false.
C3_AnomalyStrict ==
    LastIs("calculate_burn_rate") =>
        LET rate == ret.actual_burn_rate
            nominal == NominalOf(call.self)
        IN  ret.anomaly_flag <=>
                DeviationTimes20(rate, nominal) > ToleranceTimes20(rate, nominal)

\* a deviation of exactly 0.15 (4.6 kg/s in final_approach), not flagged
C3_Witness ==
    /\ LastIs("calculate_burn_rate")
    /\ DeviationTimes20(ret.actual_burn_rate, NominalOf(call.self))
         = ToleranceTimes20(ret.actual_burn_rate, NominalOf(call.self))
    /\ ~ret.anomaly_flag

\* the timestamps' difference, in ticks, and the fuel consumed, at the latest
\* call of the estimator (direct or by a cycle)
CallTicks == call.current_time - call.self.previous_timestamp
CallConsumed == call.self.previous_fuel_mass - call.current_fuel

\* C4: for every fuel reading f >= 0, calculate_burn_rate returns
\* (previous_fuel_mass - f) / (current_time - previous_timestamp) when that
\* difference is positive, and (previous_fuel_mass - f) / 0.001 when it is
\* zero or negative.
C4_BurnRate ==
    (LastIs("calculate_burn_rate") /\ call.current_fuel >= 0) =>
        ret.actual_burn_rate =
            IF CallTicks > 0
            THEN Rat(CallConsumed * TicksPerSecond, CallTicks)
            ELSE R(CallConsumed * 1000)

\* a backwards timestamp with fuel consumed
C4_Witness ==
    /\ LastIs("calculate_burn_rate")
    /\ CallTicks < 0
    /\ CallConsumed > 0
    /\ ret.actual_burn_rate = R(CallConsumed * 1000)

\* C5 as stated: the time delta calculate_burn_rate divides by is
\* max(current_ts - previous_ts, 0.001), never smaller than 0.001.
C5_TimeDeltaIsMax ==
    LastIs("calculate_burn_rate") =>
        /\ RLe(MinTimeDelta, call.time_delta)
        /\ call.time_delta = RMax(Rat(CallTicks, TicksPerSecond), MinTimeDelta)

\* C5 as amended: the time delta calculate_burn_rate divides by is
\* current_ts - previous_ts whenever that is positive, also below 0.001 s,
\* and 0.001 only when it is zero or negative; it is always positive.
C5_TimeDeltaFloorsNonPositive ==
    LastIs("calculate_burn_rate") =>
        /\ call.time_delta.n > 0
        /\ CallTicks > 0 =>
              call.time_delta.n * TicksPerSecond = CallTicks * call.time_delta.d
        /\ CallTicks <= 0 => call.time_delta = Rat(1, 1000)

\* a positive difference below 0.001 s, used as it is
C5_Witness ==
    /\ LastIs("calculate_burn_rate")
    /\ CallTicks > 0
    /\ RLt(call.time_delta, MinTimeDelta)

\* C10: for a phase whose remaining-maneuver list is empty ("landing", or an
\* identifier without a table entry) predict_fuel_requirements returns
\* required_fuel 0, with_margin 0 and confidence 100, for every burn rate and
\* either anomaly flag.
C10_EmptyManeuvers ==
    (/\ LastIs("predict_fuel_requirements")
     /\ \/ call.self.mission_phase = "landing"
        \/ call.self.mission_phase \notin DOMAIN REMAINING_MANEUVERS) =>
        /\ ret.required_fuel = R(0)
        /\ ret.with_margin = R(0)
        /\ ret.confidence = R(100)
        /\ ret.breakdown = <<>>

\* an unknown phase, a large burn rate and the anomaly flag set
C10_Witness ==
    /\ LastIs("predict_fuel_requirements")
    /\ call.self.mission_phase \notin DOMAIN REMAINING_MANEUVERS
    /\ call.burn_rate = R(3000)
    /\ call.anomaly_detected
    /\ ret.required_fuel = R(0)

\* the time delta, in seconds, between the clock readings of the latest two
\* cycles, floored as the estimator floors it
CycleDelta ==
    IF cycle_time - prior.current_time > 0
    THEN Rat(cycle_time - prior.current_time, TicksPerSecond)
    ELSE Rat(1, 1000)

\* C6: for every monitor_cycle after the first, the reported burn_rate is
\* (current_fuel reported by the preceding cycle - current_fuel reported by
\* this cycle) / (time delta between the two cycles' clock readings, floored
\* as the estimator specifies), however many update_sensors calls happened
\* between the two cycles.
C6_RateRelativeToPriorCycle ==
    cycles >= 2 =>
        status.burn_rate
            = RDiv(R(prior.current_fuel - status.current_fuel), CycleDelta)

\* a second cycle with two update_sensors calls (-3 kg and -6 kg) since the
\* first one
C6_Witness ==
    /\ cycles >= 2
    /\ LastIs("monitor_cycle")
    /\ updates >= 2
    /\ prior.current_fuel - status.current_fuel = 9
    /\ status.burn_rate.n > 0

\* C7: across successive monitor_cycle calls on one object the stored
\* previous_timestamp never decreases.
C7_PreviousTimestampMonotonic ==
    [][system'.previous_timestamp >= system.previous_timestamp]_vars

\* C8: update_sensors sets each of current_fuel_mass, altitude and velocity
\* to max(0, old value + delta); hence all three are >= 0 in every reachable
\* state.
C8_SensorsClamped ==
    /\ system.current_fuel_mass >= 0
    /\ system.altitude >= 0
    /\ system.velocity >= 0
    /\ LastIs("update_sensors") =>
        LET FloorAtZero(x) == IF x > 0 THEN x ELSE 0
        IN  /\ system.current_fuel_mass
                 = FloorAtZero(call.self.current_fuel_mass + call.fuel_delta)
            /\ system.altitude = FloorAtZero(call.self.altitude + call.altitude_delta)
            /\ system.velocity = FloorAtZero(call.self.velocity + call.velocity_delta)

\* an update whose deltas would take all three values below zero
C8_Witness ==
    /\ LastIs("update_sensors")
    /\ call.self.current_fuel_mass + call.fuel_delta < 0
    /\ call.self.altitude + call.altitude_delta < 0
    /\ call.self.velocity + call.velocity_delta < 0
    /\ system.current_fuel_mass = 0
    /\ system.altitude = 0
    /\ system.velocity = 0

HasWarning(snapshot, text) ==
    \E i \in 1..Len(snapshot.warnings) : snapshot.warnings[i].text = text

\* C9: time_remaining is current_fuel / burn_rate when burn_rate > 0 and the
\* unbounded sentinel, distinct from every finite value, when burn_rate <= 0
\* (0 included); so a cycle with burn_rate <= 0 never emits the time-critical
\* warning, even when current fuel is 0.
C9_TimeRemaining ==
    cycles >= 1 =>
        /\ status.burn_rate.n > 0 =>
              /\ ~IsInf(status.time_remaining)
              /\ status.time_remaining.n * status.burn_rate.n
                   = status.current_fuel * status.burn_rate.d * status.time_remaining.d
        /\ status.burn_rate.n <= 0 =>
              /\ IsInf(status.time_remaining)
              /\ ~HasWarning(status, W_TIME)

\* a cycle with no fuel left and a burn rate of 0
C9_Witness ==
    /\ cycles >= 1
    /\ status.current_fuel = 0
    /\ status.burn_rate = R(0)
    /\ IsInf(status.time_remaining)
    /\ ~HasWarning(status, W_TIME)

\* C11: when mission_phase has no entry in the profile table, a monitor_cycle
\* completes: deviation and anomaly flag are computed against a nominal burn
\* rate of 6.0 kg/s and the remaining-maneuver list is treated as empty.
C11_UnknownPhaseDefaults ==
    (cycles >= 1 /\ status.mission_phase \notin DOMAIN PHASE_BURN_RATES) =>
        /\ status.burn_rate_deviation
             = RMul(RDiv(RSub(status.burn_rate, R(6)), R(6)), R(100))
        /\ status.anomaly_detected <=>
              (20 * Abs(status.burn_rate.n - 6 * status.burn_rate.d)
                 > 3 * 6 * status.burn_rate.d)
        /\ status.required_fuel = R(0)
        /\ status.confidence = R(100)
        /\ status.fuel_at_touchdown = R(status.current_fuel)
        /\ status.fuel_margin = R(status.current_fuel - 100)

\* a cycle in phase "parking_orbit" burning 6 kg/s: no anomaly
C11_Witness ==
    /\ cycles >= 1
    /\ status.mission_phase = "parking_orbit"
    /\ status.burn_rate = R(6)
    /\ ~status.anomaly_detected
    /\ status.required_fuel = R(0)

\* the messages of a rule that matched
When(matched, messages) == IF matched THEN messages ELSE <<>>
Text(text) == [text |-> text, number |-> [sign |-> "", whole |-> 0, tenth |-> 0]]
Distinct(messages) ==
    \A i, j \in 1..Len(messages) : i # j => messages[i] # messages[j]

\* C12: the warnings of generate_alerts are the in-order concatenation of:
\* (1) if not fuel_sufficient, the critical-shortage warning then the deficit
\* warning carrying |fuel_margin|; (2) if not abort_capable and status is not
\* CRITICAL, the abort-window-closing warning; (3) if anomaly_flag, the
\* burn-rate deviation warning; (4) if time_remaining < 30, the time-critical
\* warning.  No warning appears twice and priority is the status label.
C12_WarningsInRuleOrder ==
    LastIs("generate_alerts") =>
        LET e == call.safety_eval
            c == call.consumption_data
        IN  /\ ret.warnings =
                 When(~e.fuel_sufficient,
                      <<Text(W_CRITICAL),
                        [text |-> W_DEFICIT, number |-> Fmt1(RAbs(e.fuel_margin), FALSE)]>>)
                 \o When(~e.abort_capable /\ e.status # "CRITICAL", <<Text(W_ABORT)>>)
                 \o When(c.anomaly_flag,
                         <<[text |-> W_ALERT, number |-> Fmt1(c.deviation_percent, TRUE)]>>)
                 \o When(~IsInf(e.time_remaining) /\ e.time_remaining.n < 30 * e.time_remaining.d,
                         <<[text |-> W_TIME, number |-> Fmt1(e.time_remaining, FALSE)]>>)
            /\ Distinct(ret.warnings)
            /\ ret.priority = e.status

\* all four rules matched: five warnings
C12_Witness ==
    /\ LastIs("generate_alerts")
    /\ Len(ret.warnings) = 5
    /\ ret.warnings[1].text = W_CRITICAL
    /\ ret.warnings[2] = [text |-> W_DEFICIT,
                          number |-> [sign |-> "", whole |-> 20, tenth |-> 0]]
    /\ ret.warnings[3].text = W_ABORT
    /\ ret.warnings[4] = [text |-> W_ALERT,
                          number |-> [sign |-> "+", whole |-> 16, tenth |-> 7]]
    /\ ret.warnings[5] = [text |-> W_TIME,
                          number |-> [sign |-> "", whole |-> 9, tenth |-> 3]]

\* C13: the recommendations of generate_alerts are, in order: if not
\* fuel_sufficient, abort-to-orbit when abort_capable, else optimize
\* trajectory then emergency landing procedures; then investigate-thruster
\* if anomaly_flag; and continue-nominal-descent is present iff status is
\* NOMINAL and there are no warnings, and is then the only recommendation.
C13_Recommendations ==
    LastIs("generate_alerts") =>
        LET e == call.safety_eval
            c == call.consumption_data
            nominal == e.status = "NOMINAL" /\ ret.warnings = <<>>
        IN  /\ ret.recommendations =
                 When(~e.fuel_sufficient /\ e.abort_capable, <<Text(R_ABORT)>>)
                 \o When(~e.fuel_sufficient /\ ~e.abort_capable,
                         <<Text(R_OPTIMIZE), Text(R_EMERGENCY)>>)
                 \o When(c.anomaly_flag, <<Text(R_INVESTIGATE)>>)
                 \o When(nominal, <<Text(R_CONTINUE)>>)
            /\ nominal <=> (\E i \in 1..Len(ret.recommendations) :
                                ret.recommendations[i] = Text(R_CONTINUE))
            /\ nominal => ret.recommendations = <<Text(R_CONTINUE)>>

\* the emergency pair followed by the thruster recommendation
C13_Witness ==
    /\ LastIs("generate_alerts")
    /\ ret.recommendations
         = <<Text(R_OPTIMIZE), Text(R_EMERGENCY), Text(R_INVESTIGATE)>>

\* the nominal recommendation alone
C13_WitnessNominal ==
    /\ LastIs("generate_alerts")
    /\ call.safety_eval.status = "NOMINAL"
    /\ ret.warnings = <<>>
    /\ ret.recommendations = <<Text(R_CONTINUE)>>

\* a monitor_cycle step that follows a monitor_cycle with no update_sensors in
\* between and reads the same clock value
RepeatedCycle ==
    /\ LastIs("monitor_cycle")
    /\ cycles' = cycles + 1
    /\ call'.op = "monitor_cycle"
    /\ call'.current_time = cycle_time

\* C14: monitor_cycle called again with no sensor update in between and an
\* equal clock reading completes with the time delta floored to 0.001 and
\* reports burn_rate exactly 0; once a cycle has reported that, every further
\* such call returns the same snapshot and leaves the object unchanged.
C14_RepeatedCycle ==
    [][RepeatedCycle =>
          /\ call'.time_delta = Rat(1, 1000)
          /\ status'.burn_rate = R(0)
          /\ status'.current_fuel = status.current_fuel
          /\ status.burn_rate = R(0) => (status' = status /\ system' = system)]_vars

\* a second call at the same clock value, after a sensor update and a first
\* call: rate 0, floored delta, object unchanged
C14_Witness ==
    /\ cycles >= 2
    /\ LastIs("monitor_cycle")
    /\ call.current_time = prior.current_time
    /\ call.self = system
    /\ call.time_delta = Rat(1, 1000)
    /\ updates >= 1
    /\ status.burn_rate = R(0)
    /\ status.current_fuel = prior.current_fuel

\* the emergency scenario: built with 118 kg in "landing" at altitude 95 and
\* velocity 3, then update_sensors(-6, 0, 0), then the first monitor_cycle
\* half a second after construction
EmergencyCycle ==
    /\ LastIs("monitor_cycle")
    /\ cycles = 1
    /\ updates = 1
    /\ call.self = UpdateSensors(init_system("emergency", StartTime), -6, 0, 0)
    /\ 2 * (call.current_time - StartTime) = TicksPerSecond

\* C15: the emergency scenario reports burn_rate 12 kg/s, no anomaly,
\* required_fuel 0, fuel_margin 112 - 0 - 100 = 12, time_remaining 112 / 12
\* (below 10 s), and its warnings include the time-critical warning.
C15_EmergencyScenario ==
    EmergencyCycle =>
        /\ status.current_fuel = 112
        /\ status.burn_rate = R(12)
        /\ ~status.anomaly_detected
        /\ status.required_fuel = R(0)
        /\ status.fuel_margin = R(12)
        /\ status.time_remaining = Rat(112, 12)
        /\ status.time_remaining.n < 10 * status.time_remaining.d
        /\ HasWarning(status, W_TIME)

\* the emergency cycle, with its time-critical warning reading 9.3 s
C15_Witness ==
    /\ EmergencyCycle
    /\ \E i \in 1..Len(status.warnings) :
          status.warnings[i] = [text |-> W_TIME,
                                number |-> [sign |-> "", whole |-> 9, tenth |-> 3]]

\* C17: monitor_cycle changes only the history fields: afterwards
\* previous_fuel_mass = current_fuel_mass and previous_timestamp = the clock
\* value the cycle read, and current_fuel_mass, altitude, velocity and
\* mission_phase are as before; update_sensors leaves previous_fuel_mass,
\* previous_timestamp and mission_phase as they were.
C17_Frames ==
    /\ LastIs("monitor_cycle") =>
          /\ system.previous_fuel_mass = system.current_fuel_mass
          /\ system.previous_timestamp = call.current_time
          /\ system.current_fuel_mass = call.self.current_fuel_mass
          /\ system.altitude = call.self.altitude
          /\ system.velocity = call.self.velocity
          /\ system.mission_phase = call.self.mission_phase
    /\ LastIs("update_sensors") =>
          /\ system.previous_fuel_mass = call.self.previous_fuel_mass
          /\ system.previous_timestamp = call.self.previous_timestamp
          /\ system.mission_phase = call.self.mission_phase

\* a cycle that moved both history fields
C17_Witness ==
    /\ LastIs("monitor_cycle")
    /\ system.previous_fuel_mass # call.self.previous_fuel_mass
    /\ system.previous_timestamp # call.self.previous_timestamp
    /\ system.current_fuel_mass = call.self.current_fuel_mass

\* an update that moved all three sensor values and no history field
C17_WitnessUpdate ==
    /\ LastIs("update_sensors")
    /\ system.current_fuel_mass # call.self.current_fuel_mass
    /\ system.altitude # call.self.altitude
    /\ system.velocity # call.self.velocity
    /\ system.previous_fuel_mass # system.current_fuel_mass

\* C18: the abort-window-closing warning is absent in every cycle whose status
\* is CRITICAL and in every cycle where abort_capable is true (and there is a
\* CAUTION cycle, with fuel_margin in [-50, 0) and abort_capable false, whose
\* warnings hold both the insufficient-fuel warnings and the
\* abort-window-closing warning: C18_Witness).
C18_AbortWarningAbsent ==
    cycles >= 1 =>
        /\ status.status = "CRITICAL" => ~HasWarning(status, W_ABORT)
        /\ status.abort_capable => ~HasWarning(status, W_ABORT)
        /\ (~status.abort_capable /\ status.status # "CRITICAL")
              => HasWarning(status, W_ABORT)

\* a CAUTION cycle with the shortage warnings and the abort-window warning
C18_Witness ==
    /\ cycles >= 1
    /\ status.status = "CAUTION"
    /\ status.fuel_margin.n < 0
    /\ status.fuel_margin.n >= -50 * status.fuel_margin.d
    /\ ~status.abort_capable
    /\ HasWarning(status, W_CRITICAL)
    /\ HasWarning(status, W_DEFICIT)
    /\ HasWarning(status, W_ABORT)

\* a CRITICAL cycle: shortage warnings without the abort-window warning
C18_WitnessCritical ==
    /\ cycles >= 1
    /\ status.status = "CRITICAL"
    /\ HasWarning(status, W_CRITICAL)
    /\ ~HasWarning(status, W_ABORT)

\* C16: two /status requests never interleave their steps on state["system"]:
\* no request reads the stored reading or the current fuel while another
\* request is between its own read and its write of the stored reading.
C16_RequestsSerialized ==
    \A t, u \in Threads :
        t # u => ~(requests[t].pc = "store" /\ requests[u].pc = "store")

====
